---- MODULE Spec2Model ----
(***************************************************************************)
(* The in-memory job store of relay (relay/src/memory_store/mod.rs): the   *)
(* queues, the Store operations enqueue / next / touch / complete, the     *)
(* two-phase reaper, and construction of the Store from the backing.       *)
(*                                                                         *)
(* Every public operation takes the queue's tokio Mutex before it reads or *)
(* writes the QueueState and keeps it across its backing call, so an       *)
(* operation is one atomic step on its queue.  The reaper is the only code *)
(* that gives the lock up between steps (one scan per queue, then the lazy *)
(* stream of reap_timeouts_inner, which keeps the lock of the queue it is  *)
(* draining while it is suspended at a yield).                             *)
(***************************************************************************)
EXTENDS Integers, Sequences, FiniteSets, TLC

(* ------------------------------ bounds ------------------------------- *)

\* job ids are 1..MaxId
MaxId == 2
\* max_retries of an enqueued job is drawn from 0..MaxRetries
MaxRetries == 1
\* enqueue is not offered on a Store holding this many ids (ready + in-flight)
MaxQueued == 2
\* backing calls that fail on I/O in one run
MaxFaults == 1
\* length of the recorded history in the history specifications
MaxLog == 6

(* ------------------------------- data -------------------------------- *)

\* Option: None and Some(x)
None == <<>>
Some(x) == <<x>>
Unwrap(o) == o[1]

\* the queue field of a call that names no queue
NoQueue == "-"

\* type Queue = String: the queue names in use
Queue == {"a", "b"}

\* type JobID = String: the ids in use
JobID == 1 .. MaxId

\* the checkpoints a worker passes to touch (Option<Box<RawValue>>)
RawValue == {"s"}
OptionRawValue == {None} \cup {Some(v) : v \in RawValue}

\* Job: the fields the store reads (the payload is never inspected)
\* the timeouts in use (Duration, in clock ticks)
Duration == {0}

Job == [id : JobID, queue : Queue, timeout : Duration,
        max_retries : 0 .. MaxRetries, persist_data : BOOLEAN]

\* StoredJob as Store::enqueue builds it
NewStoredJob(job) ==
    [job |-> job, retries |-> 0, in_flight |-> FALSE, state |-> None, heartbeat |-> None]

\* QueueState::default()
EmptyQueueState == [jobs |-> <<>>, queued |-> [jobs |-> <<>>, in_flight |-> {}]]

\* HashMap::insert / HashMap::remove on a function with a finite domain
MapInsert(m, k, v) == [x \in (DOMAIN m) \cup {k} |-> IF x = k THEN v ELSE m[x]]
MapRemove(m, k) == [x \in (DOMAIN m) \ {k} |-> m[x]]

\* the elements of a sequence
Range(s) == {s[i] : i \in DOMAIN s}

\* all orders in which a finite set can be visited (HashSet / HashMap iteration)
RECURSIVE Orders(_)
Orders(S) ==
    IF S = {} THEN {<<>>}
    ELSE UNION {{<<x>> \o o : o \in Orders(S \ {x})} : x \in S}

(* ----------------------------- backing ------------------------------- *)
(* The Backing trait (relay/src/memory_store/backing) is not part of the   *)
(* sources at hand; it is modelled from its contract: a durable log of     *)
(* records per queue, in push order; push fails on a conflict, update is a *)
(* partial update (an absent field is left alone), remove is idempotent.   *)
(* Any call may also fail on I/O, which the calling action chooses; a      *)
(* failed call changes nothing.                                            *)

\* the durable record of a StoredJob: heartbeat is #[serde(skip)]
Durable(sj) == [job |-> sj.job, retries |-> sj.retries, in_flight |-> sj.in_flight,
                state |-> sj.state]

DurableIds(b, q) == {b[q][i].job.id : i \in DOMAIN b[q]}

BackingPush(b, sj) ==
    [b EXCEPT ![sj.job.queue] = Append(@, Durable(sj))]

BackingUpdate(b, q, id, state, retries, in_flight) ==
    [b EXCEPT ![q] =
        [i \in DOMAIN @ |->
            IF @[i].job.id # id THEN @[i]
            ELSE [@[i] EXCEPT
                    !.state = IF state = None THEN @ ELSE state,
                    !.retries = IF retries = None THEN @ ELSE Unwrap(retries),
                    !.in_flight = IF in_flight = None THEN @ ELSE Unwrap(in_flight)]]]

RECURSIVE WithoutId(_, _)
WithoutId(s, id) ==
    IF s = <<>> THEN <<>>
    ELSE IF Head(s).job.id = id THEN WithoutId(Tail(s), id)
    ELSE <<Head(s)>> \o WithoutId(Tail(s), id)

BackingRemove(b, q, id) == [b EXCEPT ![q] = WithoutId(@, id)]

\* recover(): the records of every queue, each queue's in push order
BackingRecover(b, q) ==
    [i \in DOMAIN b[q] |->
        [job |-> b[q][i].job, retries |-> b[q][i].retries,
         in_flight |-> b[q][i].in_flight, state |-> b[q][i].state,
         heartbeat |-> None]]

(* ------------------------------ state -------------------------------- *)

VARIABLES
    queues,         \* Store.queues: queue name -> QueueState, for the queues created
    backing,        \* what Store.backing holds durably: queue -> sequence of records
    pc,             \* the reaper: "idle", "scan" (reap_timeouts), "drain" (the stream)
    scan_iter,      \* the queues self.queues.iter() has still to visit
    queue_job_ids,  \* reap_timeouts: queue -> the ids deferred to the terminal drain
    drain_queue,    \* the queue whose lock the stream holds, or None
    drain_ids,      \* the deferred ids of drain_queue still to finalize
    faults,         \* the backing calls that have failed on I/O so far
    ret,            \* the last step: what was called and what it returned
    log             \* history of calls (recorded by the history specifications only)

vars == <<queues, backing, pc, scan_iter, queue_job_ids, drain_queue, drain_ids,
          faults, ret, log>>

reaper_vars == <<pc, scan_iter, queue_job_ids, drain_queue, drain_ids>>

\* what a call leaves in ret: the call, its arguments, what it returned, the backing
\* calls it made, for a scan of the reaper the ids it retried (one "retries"
\* counter increment each, line 267) in the order of the retries, and for touch the
\* checkpoint it was passed
Ret(op, q, id, result, job, calls) ==
    [op |-> op, queue |-> q, id |-> id, result |-> result, job |-> job, calls |-> calls,
     retried |-> <<>>, state |-> None]

\* a queue's tables, empty for a queue that was never created
JobsIn(qs, q) == IF q \in DOMAIN qs THEN qs[q].jobs ELSE <<>>
ReadyIn(qs, q) == IF q \in DOMAIN qs THEN qs[q].queued.jobs ELSE <<>>
InFlightIn(qs, q) == IF q \in DOMAIN qs THEN qs[q].queued.in_flight ELSE {}
JobsOf(q) == JobsIn(queues, q)
ReadyOf(q) == ReadyIn(queues, q)
InFlightOf(q) == InFlightIn(queues, q)

(* The clock.  An Instant is only ever read through heartbeat.elapsed(), and  *)
(* only compared with the job's timeout, so a heartbeat is kept as the time  *)
(* elapsed since it was taken: Instant::now() is a heartbeat of age 0, Tick   *)
(* makes every heartbeat one tick older, and an age stops growing once it is  *)
(* past the job's timeout (a larger age reads the same).                      *)
InstantNow == Some(0)

Older(sj) ==
    IF sj.heartbeat = None \/ Unwrap(sj.heartbeat) > sj.job.timeout THEN sj
    ELSE [sj EXCEPT !.heartbeat = Some(Unwrap(@) + 1)]

\* the ids a Store holds in its deques and in-flight sets
Queued == LET n[S \in SUBSET DOMAIN queues] ==
                 IF S = {} THEN 0
                 ELSE LET q == CHOOSE x \in S : TRUE
                      IN Len(queues[q].queued.jobs)
                         + Cardinality(queues[q].queued.in_flight) + n[S \ {q}]
          IN n[DOMAIN queues]

\* the I/O failures of a call's backing calls are counted; a call that makes no
\* backing call is not offered a failure
Fault(ok) ==
    /\ ok \/ (faults < MaxFaults /\ ret'.calls # <<>>)
    /\ faults' = IF ok THEN faults ELSE faults + 1

\* m.lock().await succeeds at once: the stream is not holding this queue's lock
LockFree(q) == drain_queue # Some(q)

(* ------------------------ enqueue and recovery ----------------------- *)

\* backing.push(&stored) returns Err: an I/O failure, or a conflict with a record
\* the backing already holds for (queue, id)
PushFails(b, stored, push_ok) ==
    ~push_ok \/ stored.job.id \in DurableIds(b, stored.job.queue)

\* enqueue_in_memory_inner, lines 371-375: the id goes to the back of the deque,
\* into in_flight when the StoredJob says so, and the StoredJob into the table
InsertStored(queue_state, stored) ==
    [jobs |-> MapInsert(queue_state.jobs, stored.job.id, stored),
     queued |-> [jobs |-> Append(queue_state.queued.jobs, stored.job.id),
                 in_flight |-> IF stored.in_flight
                               THEN queue_state.queued.in_flight \cup {stored.job.id}
                               ELSE queue_state.queued.in_flight]]

\* Vacant that looks for the id in the deque, not in the table
VacantInReady(queue_state, id) == id \notin Range(queue_state.queued.jobs)

\* enqueue_in_memory_inner, line 366: the entry of the id in the table is vacant
Vacant(queue_state, id) == id \notin DOMAIN queue_state.jobs

\* PushThenInsert that inserts the job whatever backing.push returns
InsertDespitePushError(b, queue_state, stored, push_ok) ==
    IF PushFails(b, stored, push_ok)
    THEN [state |-> InsertStored(queue_state, stored), backing |-> b,
          result |-> "Backing", calls |-> <<"push">>]
    ELSE [state |-> InsertStored(queue_state, stored),
          backing |-> BackingPush(b, stored), result |-> "Ok", calls |-> <<"push">>]

\* enqueue_in_memory_inner, lines 368-376, for a persisted job and a real backing:
\* `backing.push(&stored).await?` returns the error before anything is inserted
PushThenInsert(b, queue_state, stored, push_ok) ==
    IF PushFails(b, stored, push_ok)
    THEN [state |-> queue_state, backing |-> b, result |-> "Backing",
          calls |-> <<"push">>]
    ELSE [state |-> InsertStored(queue_state, stored),
          backing |-> BackingPush(b, stored), result |-> "Ok", calls |-> <<"push">>]

\* enqueue_in_memory_inner: noop says that the backing passed in is noop::Store,
\* whose push does nothing and succeeds
EnqueueInMemoryInner(noop, b, queue_state, stored, push_ok) ==
    IF Vacant(queue_state, stored.job.id)
    THEN IF stored.job.persist_data /\ ~noop
         THEN PushThenInsert(b, queue_state, stored, push_ok)
         ELSE [state |-> InsertStored(queue_state, stored), backing |-> b,
               result |-> "Ok",
               calls |-> IF stored.job.persist_data THEN <<"noop push">> ELSE <<>>]
    ELSE [state |-> queue_state, backing |-> b, result |-> "JobExists", calls |-> <<>>]

\* Store::new, one queue: every recovered StoredJob is enqueued in memory with the
\* no-op backing, in the order recover() yields them
RECURSIVE RecoverInto(_, _, _)
RecoverInto(b, queue_state, stored_jobs) ==
    IF stored_jobs = <<>> THEN queue_state
    ELSE RecoverInto(b,
            EnqueueInMemoryInner(TRUE, b, queue_state, Head(stored_jobs), TRUE).state,
            Tail(stored_jobs))

\* Store::new: the queue map after recovery (a queue exists once a job was enqueued
\* in it)
Recovered(b) ==
    [q \in {x \in Queue : b[x] # <<>>} |->
        RecoverInto(b, EmptyQueueState, BackingRecover(b, q))]

Init ==
    /\ backing = [q \in Queue |-> <<>>]
    /\ queues = Recovered(backing)
    /\ pc = "idle"
    /\ scan_iter = {}
    /\ queue_job_ids = <<>>
    /\ drain_queue = None
    /\ drain_ids = <<>>
    /\ faults = 0
    /\ ret = Ret("new", NoQueue, None, "Ok", None, <<"recover">>)
    /\ log = <<>>

\* the process stops and a new Store is constructed over the same backing
\* (Store::new): nothing of the old Store's memory survives
StoreNew ==
    /\ queues' = Recovered(backing)
    /\ pc' = "idle"
    /\ scan_iter' = {}
    /\ queue_job_ids' = <<>>
    /\ drain_queue' = None
    /\ drain_ids' = <<>>
    /\ ret' = Ret("new", NoQueue, None, "Ok", None, <<"recover">>)
    /\ UNCHANGED <<backing, faults>>

\* Store::enqueue / enqueue_in_memory: the queue is created when it is unknown
\* (also when the enqueue then fails); a running scan may or may not visit a
\* queue created under it
Enqueue(job, push_ok) ==
    LET q == job.queue
        queue_state == IF q \in DOMAIN queues THEN queues[q] ELSE EmptyQueueState
        r == EnqueueInMemoryInner(FALSE, backing, queue_state, NewStoredJob(job), push_ok)
    IN /\ LockFree(q)
       /\ \/ job.id \in DOMAIN queue_state.jobs
          \/ Queued < MaxQueued
       /\ queues' = MapInsert(queues, q, r.state)
       /\ backing' = r.backing
       /\ ret' = Ret("enqueue", q, Some(job.id), r.result, None, r.calls)
       /\ Fault(push_ok)
       /\ scan_iter' \in IF pc = "scan" /\ q \notin DOMAIN queues
                         THEN {scan_iter, scan_iter \cup {q}}
                         ELSE {scan_iter}
       /\ UNCHANGED <<pc, queue_job_ids, drain_queue, drain_ids>>

(* ------------------------ next, touch, complete ---------------------- *)

\* PopFront that pops from the back
PopBack(deque) == [id |-> deque[Len(deque)], rest |-> SubSeq(deque, 1, Len(deque) - 1)]

\* VecDeque::pop_front: the id dispensed and the deque left
PopFront(deque) == [id |-> Head(deque), rest |-> Tail(deque)]

\* Store::next
StoreNext(q, update_ok) ==
    /\ LockFree(q)
    /\ IF q \notin DOMAIN queues
       THEN /\ ret' = Ret("next", q, None, "None", None, <<>>)
            /\ UNCHANGED <<queues, backing>>
       ELSE IF queues[q].queued.jobs = <<>>
       THEN /\ ret' = Ret("next", q, None, "None", None, <<>>)
            /\ UNCHANGED <<queues, backing>>
       ELSE LET job_id == PopFront(queues[q].queued.jobs).id
                popped == [queues[q] EXCEPT
                              !.queued.jobs = PopFront(@).rest,
                              !.queued.in_flight = @ \cup {job_id}]
            IN IF job_id \notin DOMAIN popped.jobs
               THEN /\ queues' = [queues EXCEPT ![q] = popped]
                    /\ ret' = Ret("next", q, Some(job_id), "JobNotFound", None, <<>>)
                    /\ UNCHANGED backing
               ELSE LET sj == popped.jobs[job_id]
                    IN /\ queues' = [queues EXCEPT ![q] =
                                        [popped EXCEPT !.jobs[job_id].heartbeat = InstantNow]]
                       /\ IF sj.job.persist_data
                          THEN /\ backing' = IF update_ok
                                             THEN BackingUpdate(backing, q, job_id,
                                                                None, None, Some(TRUE))
                                             ELSE backing
                               /\ ret' = Ret("next", q, Some(job_id), "Some", Some(sj.job),
                                             <<"update">>)
                          ELSE /\ backing' = backing
                               /\ ret' = Ret("next", q, Some(job_id), "Some", Some(sj.job), <<>>)
    /\ Fault(update_ok)
    /\ UNCHANGED reaper_vars

\* HeartbeatIsSome that takes every job of the table for a job in flight
HeartbeatIgnored(sj) == TRUE

\* Store::touch, line 140: sj.heartbeat.is_some()
HeartbeatIsSome(sj) == sj.heartbeat # None

\* what touch returns, with the checkpoint it was passed
TouchRet(q, job_id, state, result, calls) ==
    [Ret("touch", q, Some(job_id), result, None, calls) EXCEPT !.state = state]

\* Store::touch
Touch(q, job_id, state, update_ok) ==
    /\ LockFree(q)
    /\ IF q \notin DOMAIN queues
       THEN /\ ret' = TouchRet(q, job_id, state, "JobNotFound", <<>>)
            /\ UNCHANGED <<queues, backing>>
       ELSE IF job_id \notin DOMAIN queues[q].jobs
       THEN /\ ret' = TouchRet(q, job_id, state, "JobNotFound", <<>>)
            /\ UNCHANGED <<queues, backing>>
       ELSE LET sj == queues[q].jobs[job_id]
            IN IF HeartbeatIsSome(sj)
               THEN IF sj.job.persist_data
                       /\ (state # None \/ (state # None) # (sj.state # None))
                    THEN IF update_ok
                         THEN /\ backing' = BackingUpdate(backing, q, job_id,
                                                          state, None, None)
                              /\ queues' = [queues EXCEPT
                                               ![q].jobs[job_id].heartbeat = InstantNow,
                                               ![q].jobs[job_id].state = state]
                              /\ ret' = TouchRet(q, job_id, state, "Ok", <<"update">>)
                         ELSE /\ ret' = TouchRet(q, job_id, state, "Backing", <<"update">>)
                              /\ UNCHANGED <<queues, backing>>
                    ELSE /\ queues' = [queues EXCEPT
                                          ![q].jobs[job_id].heartbeat = InstantNow,
                                          ![q].jobs[job_id].state = state]
                         /\ ret' = TouchRet(q, job_id, state, "Ok", <<>>)
                         /\ UNCHANGED backing
               ELSE /\ ret' = TouchRet(q, job_id, state, "Ok", <<>>)
                    /\ UNCHANGED <<queues, backing>>
    /\ Fault(update_ok)
    /\ UNCHANGED reaper_vars

\* CompleteInner that removes the durable record first and keeps the StoredJob in
\* the table when that fails
CompleteRemoveDurableFirst(b, queue_state, q, job_id, remove_ok) ==
    LET left == [queue_state EXCEPT !.queued.in_flight = @ \ {job_id}]
    IN IF job_id \in DOMAIN left.jobs
       THEN LET sj == left.jobs[job_id]
                removed == [left EXCEPT !.jobs = MapRemove(@, job_id)]
            IN IF sj.job.persist_data
               THEN IF remove_ok
                    THEN [state |-> removed, backing |-> BackingRemove(b, q, job_id),
                          result |-> "Ok", calls |-> <<"remove">>]
                    ELSE [state |-> left, backing |-> b, result |-> "Backing",
                          calls |-> <<"remove">>]
               ELSE [state |-> removed, backing |-> b, result |-> "Ok", calls |-> <<>>]
       ELSE [state |-> left, backing |-> b, result |-> "Ok", calls |-> <<>>]

\* Store::complete, lines 174-180, under the lock: the id leaves in_flight, the
\* StoredJob leaves the table, and then the durable record is removed
CompleteInner(b, queue_state, q, job_id, remove_ok) ==
    LET left == [queue_state EXCEPT !.queued.in_flight = @ \ {job_id}]
    IN IF job_id \in DOMAIN left.jobs
       THEN LET sj == left.jobs[job_id]
                removed == [left EXCEPT !.jobs = MapRemove(@, job_id)]
            IN IF sj.job.persist_data
               THEN IF remove_ok
                    THEN [state |-> removed, backing |-> BackingRemove(b, q, job_id),
                          result |-> "Ok", calls |-> <<"remove">>]
                    ELSE [state |-> removed, backing |-> b, result |-> "Backing",
                          calls |-> <<"remove">>]
               ELSE [state |-> removed, backing |-> b, result |-> "Ok", calls |-> <<>>]
       ELSE [state |-> left, backing |-> b, result |-> "Ok", calls |-> <<>>]

\* Store::complete
Complete(q, job_id, remove_ok) ==
    /\ LockFree(q)
    /\ IF q \notin DOMAIN queues
       THEN /\ ret' = Ret("complete", q, Some(job_id), "JobNotFound", None, <<>>)
            /\ UNCHANGED <<queues, backing>>
       ELSE LET r == CompleteInner(backing, queues[q], q, job_id, remove_ok)
            IN /\ queues' = [queues EXCEPT ![q] = r.state]
               /\ backing' = r.backing
               /\ ret' = Ret("complete", q, Some(job_id), r.result, None, r.calls)
    /\ Fault(remove_ok)
    /\ UNCHANGED reaper_vars

\* time passes: every heartbeat is one tick older
Tick ==
    /\ queues' = [q \in DOMAIN queues |->
                    [queues[q] EXCEPT !.jobs = [id \in DOMAIN @ |-> Older(@[id])]]]
    /\ queues' # queues
    /\ ret' = Ret("tick", NoQueue, None, "Ok", None, <<>>)
    /\ UNCHANGED <<backing, reaper_vars, faults>>

(* ------------------------------ reaper ------------------------------- *)

\* heartbeat.elapsed()
Elapsed(heartbeat) == Unwrap(heartbeat)

\* Terminal with the comparison off by one
TerminalOffByOne(j) == j.job.max_retries = 0 \/ j.retries > j.job.max_retries

\* reap_timeouts, line 251: no retry is left for a timed-out job
Terminal(j) == j.job.max_retries = 0 \/ j.retries >= j.job.max_retries

\* PushFront that pushes to the back
PushBack(deque, id) == Append(deque, id)

\* VecDeque::push_front
PushFront(deque, id) == <<id>> \o deque

\* reap_timeouts, lines 260-265: the retry of a timed-out job
Retry(j) == [j EXCEPT !.retries = @ + 1, !.heartbeat = None]

\* the closure of in_flight.retain (lines 246-276) on one id. acc carries the
\* QueueState, the ids retain keeps, the ids deferred to the terminal drain, the
\* clones pushed on `stored` and the ids retried
RetainStep(acc, job_id) ==
    IF job_id \notin DOMAIN acc.state.jobs
    THEN acc
    ELSE LET j == acc.state.jobs[job_id]
         IN IF j.heartbeat # None
            THEN IF Elapsed(j.heartbeat) > j.job.timeout
                 THEN IF Terminal(j)
                      THEN [acc EXCEPT !.deferred = Append(@, j.job.id),
                                       !.keep = @ \cup {job_id}]
                      ELSE [acc EXCEPT
                              !.state.jobs[job_id] = Retry(j),
                              !.state.queued.jobs = PushFront(@, j.job.id),
                              !.retried = Append(@, j.job.id),
                              !.stored = IF j.job.persist_data
                                         THEN Append(@, Retry(j)) ELSE @]
                 ELSE [acc EXCEPT !.keep = @ \cup {job_id}]
            ELSE acc

\* retain visits the ids of in_flight in the order the HashSet iterates them
RECURSIVE Retain(_, _)
Retain(acc, order) ==
    IF order = <<>> THEN [acc EXCEPT !.state.queued.in_flight = acc.keep]
    ELSE Retain(RetainStep(acc, Head(order)), Tail(order))

\* lines 279-288: backing.update(queue, id, None, Some(retries), Some(false)) for
\* every clone on `stored`; the updates of the ids in `failed` return Err
RECURSIVE UpdateRetries(_, _, _, _)
UpdateRetries(b, q, stored, failed) ==
    IF stored = <<>> THEN b
    ELSE UpdateRetries(
            IF Head(stored).job.id \in failed THEN b
            ELSE BackingUpdate(b, q, Head(stored).job.id, None,
                               Some(Head(stored).retries), Some(FALSE)),
            q, Tail(stored), failed)

\* Store::reap_timeouts is called: the scan starts on the queues that exist
ReapTimeouts ==
    /\ pc = "idle"
    /\ pc' = IF DOMAIN queues = {} THEN "drain" ELSE "scan"
    /\ scan_iter' = DOMAIN queues
    /\ queue_job_ids' = <<>>
    /\ ret' = Ret("reap_timeouts", NoQueue, None, "Ok", None, <<>>)
    /\ UNCHANGED <<queues, backing, drain_queue, drain_ids, faults>>

\* reap_timeouts, one turn of `for v in self.queues.iter()` (lines 238-289), under
\* the queue's lock
ReapScan(q, order, failed) ==
    /\ pc = "scan"
    /\ q \in scan_iter
    /\ LockFree(q)
    /\ order \in Orders(queues[q].queued.in_flight)
    /\ LET acc == Retain([state |-> queues[q], keep |-> {}, deferred |-> <<>>,
                          stored |-> <<>>, retried |-> <<>>], order)
       IN /\ queues' = [queues EXCEPT ![q] = acc.state]
          /\ queue_job_ids' = IF acc.deferred = <<>> THEN queue_job_ids
                              ELSE MapInsert(queue_job_ids, q, acc.deferred)
          /\ failed \subseteq {acc.stored[i].job.id : i \in DOMAIN acc.stored}
          /\ faults + Cardinality(failed) <= MaxFaults
          /\ faults' = faults + Cardinality(failed)
          /\ backing' = UpdateRetries(backing, q, acc.stored, failed)
          /\ ret' = [Ret("reap_timeouts", q, None, "Ok", None,
                         [i \in DOMAIN acc.stored |-> "update"])
                        EXCEPT !.retried = acc.retried]
    /\ scan_iter' = scan_iter \ {q}
    /\ pc' = IF scan_iter' = {} THEN "drain" ELSE "scan"
    /\ UNCHANGED <<drain_queue, drain_ids>>

\* reap_timeouts_inner, lines 299-301: the stream takes up the deferred ids of one
\* queue (the HashMap yields the queues in any order) and locks that queue
DrainQueue(q) ==
    /\ pc = "drain"
    /\ drain_queue = None
    /\ q \in DOMAIN queue_job_ids
    /\ drain_queue' = Some(q)
    /\ drain_ids' = queue_job_ids[q]
    /\ queue_job_ids' = MapRemove(queue_job_ids, q)
    /\ ret' = Ret("reap_next", q, None, "Lock", None, <<>>)
    /\ UNCHANGED <<queues, backing, pc, scan_iter, faults>>

\* reap_timeouts_inner, lines 302-323: one deferred id, under the lock taken by
\* DrainQueue. A failed backing.remove is yielded as Error::Reaper by `?`, which
\* ends the stream
DrainJob(remove_ok) ==
    /\ pc = "drain"
    /\ drain_queue # None
    /\ drain_ids # <<>>
    /\ LET q == Unwrap(drain_queue)
           job_id == Head(drain_ids)
       IN IF job_id \notin DOMAIN queues[q].jobs
          THEN /\ queues' = [queues EXCEPT ![q].queued.in_flight = @ \ {job_id}]
               /\ drain_ids' = Tail(drain_ids)
               /\ ret' = Ret("reap_next", q, Some(job_id), "Skip", None, <<>>)
               /\ UNCHANGED <<backing, pc, queue_job_ids, drain_queue>>
          ELSE LET sj == queues[q].jobs[job_id]
               IN IF sj.job.persist_data /\ ~remove_ok
                  THEN /\ ret' = Ret("reap_next", q, Some(job_id), "Reaper", None,
                                     <<"remove">>)
                       /\ pc' = "idle"
                       /\ drain_queue' = None
                       /\ drain_ids' = <<>>
                       /\ queue_job_ids' = <<>>
                       /\ UNCHANGED <<queues, backing>>
                  ELSE /\ backing' = IF sj.job.persist_data
                                     THEN BackingRemove(backing, q, job_id)
                                     ELSE backing
                       /\ queues' = [queues EXCEPT
                                        ![q].queued.in_flight = @ \ {job_id},
                                        ![q].jobs = MapRemove(@, job_id)]
                       /\ ret' = Ret("reap_next", q, Some(job_id), "Ok", Some(sj.job),
                                     IF sj.job.persist_data THEN <<"remove">>
                                     ELSE <<>>)
                       /\ drain_ids' = Tail(drain_ids)
                       /\ UNCHANGED <<pc, queue_job_ids, drain_queue>>
    /\ Fault(remove_ok)
    /\ UNCHANGED scan_iter

\* the `for job_id in job_ids` loop is over: the lock guard goes out of scope
DrainUnlock ==
    /\ pc = "drain"
    /\ drain_queue # None
    /\ drain_ids = <<>>
    /\ drain_queue' = None
    /\ ret' = Ret("reap_next", Unwrap(drain_queue), None, "Unlock", None, <<>>)
    /\ UNCHANGED <<queues, backing, pc, scan_iter, queue_job_ids, drain_ids, faults>>

\* no deferred queue is left: the stream ends
DrainEnd ==
    /\ pc = "drain"
    /\ drain_queue = None
    /\ queue_job_ids = <<>>
    /\ pc' = "idle"
    /\ ret' = Ret("reap_next", NoQueue, None, "End", None, <<>>)
    /\ UNCHANGED <<queues, backing, scan_iter, queue_job_ids, drain_queue,
                   drain_ids, faults>>

\* the orders of visit of the subsets of S
Seq1(S) == UNION {Orders(T) : T \in SUBSET S}

(* --------------------------- specification --------------------------- *)

\* a call that is not recorded in the history
Quiet == UNCHANGED log

\* the calls of one step: Q the queues called on, J the jobs enqueued, S the
\* checkpoints passed to touch
Step(Q, J, S) ==
    \/ \E job \in J, push_ok \in BOOLEAN : Enqueue(job, push_ok) /\ Quiet
    \/ \E q \in Q, update_ok \in BOOLEAN : StoreNext(q, update_ok) /\ Quiet
    \/ \E q \in Q, job_id \in JobID, state \in S, update_ok \in BOOLEAN :
          Touch(q, job_id, state, update_ok) /\ Quiet
    \/ \E q \in Q, job_id \in JobID, remove_ok \in BOOLEAN :
          Complete(q, job_id, remove_ok) /\ Quiet
    \/ ReapTimeouts /\ Quiet
    \/ \E q \in Q, order \in Seq1(JobID), failed \in SUBSET JobID :
          ReapScan(q, order, failed) /\ Quiet
    \/ \E q \in Q : DrainQueue(q) /\ Quiet
    \/ \E remove_ok \in BOOLEAN : DrainJob(remove_ok) /\ Quiet
    \/ DrainUnlock /\ Quiet
    \/ DrainEnd /\ Quiet
    \/ StoreNew /\ Quiet
    \/ Tick /\ Quiet

\* the jobs of the queues Q
JobsOn(Q) == {job \in Job : job.queue \in Q}

\* one queue, every kind of job, no checkpoint
Next == Step({"a"}, JobsOn({"a"}), {None})

Spec == Init /\ [][Next]_vars

\* two queues, one id, jobs without retries, no checkpoint
NextQueues == Step(Queue, {job \in Job : job.max_retries = 0 /\ job.id = 1}, {None})

SpecQueues == Init /\ [][NextQueues]_vars

\* a call that is recorded in the history
Record == Len(log) < MaxLog /\ log' = Append(log, ret')

\* one queue, jobs that are not persisted, no complete, no touch and no restart;
\* the calls and what they returned are recorded
NextLog ==
    \/ \E job \in {j \in JobsOn({"a"}) : ~j.persist_data} :
          Enqueue(job, TRUE) /\ Record
    \/ StoreNext("a", TRUE) /\ Record
    \/ ReapTimeouts /\ Quiet
    \/ \E order \in Seq1(JobID) : ReapScan("a", order, {}) /\ Record
    \/ DrainQueue("a") /\ Quiet
    \/ DrainJob(TRUE) /\ Record
    \/ DrainUnlock /\ Quiet
    \/ DrainEnd /\ Quiet
    \/ Tick /\ Quiet

SpecLog == Init /\ [][NextLog]_vars

\* one queue, one id, every kind of job, touch with and without a checkpoint
NextTouch == Step({"a"}, {job \in JobsOn({"a"}) : job.id = 1}, OptionRawValue)

SpecTouch == Init /\ [][NextTouch]_vars

\* the reaper's own steps once reap_timeouts was called: the scans, and the stream
\* polled by its consumer
ReaperStep ==
    \/ \E order \in Seq1(JobID) : ReapScan("a", order, {}) /\ Quiet
    \/ DrainQueue("a") /\ Quiet
    \/ DrainJob(TRUE) /\ Quiet
    \/ DrainUnlock /\ Quiet
    \/ DrainEnd /\ Quiet

\* one queue, jobs that are not persisted, no restart
NextLive ==
    \/ \E job \in {j \in JobsOn({"a"}) : ~j.persist_data} : Enqueue(job, TRUE) /\ Quiet
    \/ StoreNext("a", TRUE) /\ Quiet
    \/ \E job_id \in JobID : Touch("a", job_id, None, TRUE) /\ Quiet
    \/ \E job_id \in JobID : Complete("a", job_id, TRUE) /\ Quiet
    \/ ReapTimeouts /\ Quiet
    \/ ReaperStep
    \/ Tick /\ Quiet

\* workers keep calling next on the queue; reap_timeouts runs to its end and the
\* consumer of its stream drains it fully
Fairness ==
    /\ WF_vars(StoreNext("a", TRUE) /\ Quiet)
    /\ WF_vars(ReaperStep)

SpecLive == Init /\ [][NextLive]_vars /\ Fairness

(* ------------------------------ claims ------------------------------- *)

\* no reap cycle is in progress (every Store call is one step, but a reap cycle is
\* many)
AtRest == pc = "idle"

\* C1: in every queue at rest, the ids of the ready deque and the ids of in_flight
\* are disjoint and together they are exactly the keys of the jobs table.
C1_ReadyInFlightPartitionJobs ==
    AtRest =>
        \A q \in DOMAIN queues :
            /\ Range(queues[q].queued.jobs) \cap queues[q].queued.in_flight = {}
            /\ Range(queues[q].queued.jobs) \cup queues[q].queued.in_flight
                  = DOMAIN queues[q].jobs

\* C2: at rest, the heartbeat of a StoredJob of the jobs table is Some exactly when
\* its id is in the queue's in_flight set.
C2_HeartbeatIffInFlight ==
    AtRest =>
        \A q \in DOMAIN queues : \A id \in DOMAIN queues[q].jobs :
            (queues[q].jobs[id].heartbeat # None) <=> (id \in queues[q].queued.in_flight)

\* C3: retries never exceeds max_retries; within the life of a Store the retries of
\* a job change only by the reaper adding one, and the reaper adds one only when
\* max_retries # 0 and retries < max_retries.
C3_RetriesBounded ==
    [][\A q \in DOMAIN queues' : \A id \in DOMAIN queues'[q].jobs :
          LET new == queues'[q].jobs[id]
          IN /\ new.retries <= new.job.max_retries
             /\ (ret'.op # "new" /\ q \in DOMAIN queues /\ id \in DOMAIN queues[q].jobs)
                  => LET old == queues[q].jobs[id]
                     IN \/ new.retries = old.retries
                        \/ /\ new.retries = old.retries + 1
                           /\ ret'.op = "reap_timeouts"
                           /\ old.job.max_retries # 0
                           /\ old.retries < old.job.max_retries]_vars

\* C3, witness: the reaper has just retried a job, which has now used all its
\* retries
C3_Witness ==
    /\ ret.op = "reap_timeouts"
    /\ ret.retried # <<>>
    /\ \E id \in DOMAIN JobsOf(ret.queue) :
          /\ JobsOf(ret.queue)[id].retries >= 1
          /\ JobsOf(ret.queue)[id].retries = JobsOf(ret.queue)[id].job.max_retries

IsEnqueued(e) == e.op = "enqueue" /\ e.result = "Ok" /\ e.queue = "a"
IsNext(e) == e.op = "next" /\ e.queue = "a"

\* the recorded calls are successful or rejected enqueues followed by next calls
EnqueuesThenNexts ==
    /\ \A i \in DOMAIN log : log[i].op \in {"enqueue", "next"}
    /\ \A i, j \in DOMAIN log : (i < j /\ log[i].op = "next") => log[j].op = "next"

\* C4: when enqueues on a queue are followed by next calls only, the next calls
\* return the enqueued jobs in the order of their enqueues, and then no job.
C4_NextInEnqueueOrder ==
    EnqueuesThenNexts =>
        LET enqueued == SelectSeq(log, IsEnqueued)
            nexts == SelectSeq(log, IsNext)
        IN \A k \in DOMAIN nexts :
              IF k <= Len(enqueued)
              THEN nexts[k].result = "Some" /\ nexts[k].id = enqueued[k].id
              ELSE nexts[k].result = "None"

\* C4, witness: every id was enqueued, all were dispensed and a last next returned
\* no job
C4_Witness ==
    /\ EnqueuesThenNexts
    /\ Len(SelectSeq(log, IsEnqueued)) = MaxId
    /\ Len(SelectSeq(log, IsNext)) = MaxId + 1

IsRetry(e) == e.op = "reap_timeouts" /\ e.retried # <<>>

\* the first recorded scan with a retry after position i, or the end of the history
NextRetry(i) ==
    IF \E j \in DOMAIN log : j > i /\ IsRetry(log[j])
    THEN CHOOSE j \in DOMAIN log :
            /\ j > i /\ IsRetry(log[j])
            /\ \A k \in DOMAIN log : (k > i /\ IsRetry(log[k])) => j <= k
    ELSE Len(log) + 1

\* C5: the jobs a scan of the reaper retries are dispensed by the next calls that
\* follow the scan, last retried first, before any job that was waiting in ready at
\* the scan or was enqueued after it.
C5_RetriedJobsFirst ==
    \A i \in DOMAIN log :
        IsRetry(log[i]) =>
            LET retried == log[i].retried
                nexts == SelectSeq(SubSeq(log, i + 1, NextRetry(i) - 1), IsNext)
            IN \A k \in DOMAIN nexts :
                  k <= Len(retried) =>
                     /\ nexts[k].result = "Some"
                     /\ nexts[k].id = Some(retried[Len(retried) + 1 - k])

\* C5, witness: a scan retried a job, a job was enqueued after the scan, and the
\* next call that followed returned the retried job while another job waits
C5_Witness ==
    /\ Len(log) >= 3
    /\ IsRetry(log[Len(log) - 2])
    /\ log[Len(log) - 1].op = "enqueue" /\ log[Len(log) - 1].result = "Ok"
    /\ log[Len(log)].op = "next" /\ log[Len(log)].result = "Some"
    /\ Len(ReadyOf("a")) >= 1

\* C6: a persisted job that is in a jobs table (waiting or in flight) has a durable
\* record, and so has every persisted job that next returns.
C6_DispensedJobIsDurable ==
    /\ \A q \in DOMAIN queues : \A id \in DOMAIN queues[q].jobs :
          queues[q].jobs[id].job.persist_data => id \in DurableIds(backing, q)
    /\ (ret.op = "next" /\ ret.result = "Some" /\ Unwrap(ret.job).persist_data)
          => Unwrap(ret.id) \in DurableIds(backing, ret.queue)

\* C6, witness: next has returned a persisted job
C6_Witness ==
    ret.op = "next" /\ ret.result = "Some" /\ Unwrap(ret.job).persist_data

\* C7: an enqueue that fails on backing.push returns a Backing error and leaves the
\* tables of its queue as they were, with the id in none of them.
C7_FailedPushLeavesNoTrace ==
    [][(ret'.op = "enqueue" /\ ret'.result = "Backing") =>
          LET q == ret'.queue
              id == Unwrap(ret'.id)
          IN /\ ret'.calls = <<"push">>
             /\ JobsIn(queues', q) = JobsOf(q)
             /\ ReadyIn(queues', q) = ReadyOf(q)
             /\ InFlightIn(queues', q) = InFlightOf(q)
             /\ backing' = backing
             /\ id \notin DOMAIN JobsIn(queues', q)
             /\ id \notin Range(ReadyIn(queues', q))
             /\ id \notin InFlightIn(queues', q)]_vars

\* C8: an enqueue of an id that is in the jobs table of its queue is rejected with
\* JobExists, calls no backing and changes nothing; an enqueue of an id that is not
\* in the jobs table of its queue, whatever the other queues hold, is not rejected:
\* it returns Ok unless its own backing.push fails.
C8_JobExistsPerQueue ==
    [][ret'.op = "enqueue" =>
          LET q == ret'.queue
              id == Unwrap(ret'.id)
          IN IF id \in DOMAIN JobsOf(q)
             THEN /\ ret'.result = "JobExists"
                  /\ ret'.calls = <<>>
                  /\ queues' = queues
                  /\ backing' = backing
             ELSE /\ ret'.result \in {"Ok", "Backing"}
                  /\ ret'.result = "Backing" => ret'.calls = <<"push">>
                  /\ ret'.result = "Ok" => id \in DOMAIN JobsIn(queues', q)]_vars

\* C8, witness: an enqueue was rejected for an id that is in flight in its queue,
\* while the same id is held by another queue as well
C8_Witness ==
    /\ ret.op = "enqueue"
    /\ ret.result = "JobExists"
    /\ Unwrap(ret.id) \in InFlightOf(ret.queue)
    /\ \E q \in Queue \ {ret.queue} : Unwrap(ret.id) \in DOMAIN JobsOf(q)

\* C9: next returns a job or no job, never an error.
C9_NextNeverFails ==
    ret.op = "next" => ret.result \in {"Some", "None"}

\* two complete calls in a row on the same id of an existing queue
SecondComplete ==
    /\ ret.op = "complete"
    /\ ret'.op = "complete"
    /\ ret'.queue = ret.queue
    /\ ret'.id = ret.id
    /\ ret.result # "JobNotFound"

RecoveredJobs == {<<q, id>> \in Queue \X JobID : id \in DurableIds(backing, q)}

\* C11: after Store::new every job that backing.recover() yields, also one recovered
\* with in_flight = true, is in the jobs table and the ready deque of its queue and
\* is not in in_flight, and Store::new has called no backing.push.
C11_RecoveredJobsAreReady ==
    ret.op = "new" =>
        /\ "push" \notin Range(ret.calls)
        /\ \A r \in RecoveredJobs :
              /\ r[2] \in DOMAIN JobsOf(r[1])
              /\ r[2] \in Range(ReadyOf(r[1]))
              /\ r[2] \notin InFlightOf(r[1])

\* a Store call has just returned success (for the reaper: a scan, a job the drain
\* yielded, or the end of the drain)
Acknowledged ==
    \/ ret.op = "enqueue" /\ ret.result = "Ok"
    \/ ret.op = "next" /\ ret.result \in {"Some", "None"}
    \/ ret.op = "touch" /\ ret.result = "Ok"
    \/ ret.op = "complete" /\ ret.result = "Ok"
    \/ ret.op = "reap_timeouts"
    \/ ret.op = "reap_next" /\ ret.result \in {"Ok", "End"}

\* the durable record of id in queue q
DurableRecord(q, id) ==
    backing[q][CHOOSE i \in DOMAIN backing[q] : backing[q][i].job.id = id]

\* the durable records of queue q and its persisted jobs in memory are the same
\* jobs, with the same checkpoint, retries and in-flight status
Lockstep(q) ==
    /\ DurableIds(backing, q) = {id \in DOMAIN JobsOf(q) : JobsOf(q)[id].job.persist_data}
    /\ \A id \in DurableIds(backing, q) \cap DOMAIN JobsOf(q) :
          /\ DurableRecord(q, id).state = JobsOf(q)[id].state
          /\ DurableRecord(q, id).retries = JobsOf(q)[id].retries
          /\ DurableRecord(q, id).in_flight = (id \in InFlightOf(q))

\* C12: after every Store call that returned success, the durable records agree
\* with the persisted jobs in memory on existence, checkpoint, retries and in-flight
\* status.
C12_DurableLockstep ==
    Acknowledged => \A q \in Queue : Lockstep(q)

\* C13: when backing.remove fails for a deferred job, the drain yields a Reaper
\* error for it, the job stays in jobs and in_flight, and the deferred jobs that
\* remain in this cycle are still to be finalized.
C13_DrainGoesOnAfterReaperError ==
    [][(ret'.op = "reap_next" /\ ret'.result = "Reaper") =>
          LET q == ret'.queue
              id == Unwrap(ret'.id)
          IN /\ id \in DOMAIN JobsIn(queues', q)
             /\ id \in InFlightIn(queues', q)
             /\ drain_ids' = Tail(drain_ids)
             /\ queue_job_ids' = queue_job_ids]_vars

\* the job is in flight, its timeout is exceeded and it has no retry left
TimedOutTerminal(q, id) ==
    /\ id \in InFlightOf(q)
    /\ id \in DOMAIN JobsOf(q)
    /\ JobsOf(q)[id].heartbeat # None
    /\ Elapsed(JobsOf(q)[id].heartbeat) > JobsOf(q)[id].job.timeout
    /\ Terminal(JobsOf(q)[id])

\* C14: a scan of the reaper defers every in-flight job whose timeout is exceeded
\* and whose retries are exhausted and does not put it back in ready; the drain,
\* when no backing call fails, yields such a job once as Ok(job), and the job is then
\* absent from jobs, ready and in_flight.
C14_TerminalJobReaped ==
    [][/\ (ret'.op = "reap_timeouts" /\ ret'.queue # NoQueue) =>
             \A id \in JobID :
                TimedOutTerminal(ret'.queue, id) =>
                   /\ id \notin Range(ret'.retried)
                   /\ ReadyIn(queues', ret'.queue) = ReadyOf(ret'.queue)
                         \/ Head(ReadyIn(queues', ret'.queue)) # id
                   /\ ret'.queue \in DOMAIN queue_job_ids'
                   /\ id \in Range(queue_job_ids'[ret'.queue])
       /\ (/\ ret'.op = "reap_next"
           /\ ret'.id # None
           /\ TimedOutTerminal(ret'.queue, Unwrap(ret'.id))
           /\ faults' = faults) =>
             LET q == ret'.queue
                 id == Unwrap(ret'.id)
             IN /\ ret'.result = "Ok"
                /\ ret'.job = Some(JobsOf(q)[id].job)
                /\ id \notin Range(drain_ids')
                /\ id \notin DOMAIN JobsIn(queues', q)
                /\ id \notin Range(ReadyIn(queues', q))
                /\ id \notin InFlightIn(queues', q)]_vars

\* the last call, seen from job id
EnqueuedOk(id) == ret.op = "enqueue" /\ ret.result = "Ok" /\ ret.id = Some(id)
Dispensed(id) == ret.op = "next" /\ ret.result = "Some" /\ ret.id = Some(id)
Completed(id) == ret.op = "complete" /\ ret.id = Some(id)

\* C15: when next keeps being called on the queue, every job whose enqueue returned
\* Ok is returned by a later next, unless a complete is called on its id first.
C15_EnqueuedIsDispensed ==
    \A id \in JobID : EnqueuedOk(id) ~> (Dispensed(id) \/ Completed(id))

\* C16: when backing.update(in_flight = true) fails in next, next still returns the
\* job, and the job's id has left ready, is in in_flight and has its heartbeat set.
C16_NextKeepsTransition ==
    [][(ret'.op = "next" /\ ret'.calls = <<"update">> /\ faults' = faults + 1) =>
          LET q == ret'.queue
              id == Unwrap(ret'.id)
          IN /\ ret'.result = "Some"
             /\ ret'.job = Some(JobsOf(q)[id].job)
             /\ id = Head(ReadyOf(q))
             /\ id \notin Range(ReadyIn(queues', q))
             /\ id \in InFlightIn(queues', q)
             /\ JobsIn(queues', q)[id].heartbeat = InstantNow]_vars

\* C17: touch on a job that is in the jobs table with heartbeat None returns Ok,
\* calls no backing and changes neither the job nor the ready deque nor in_flight,
\* whatever checkpoint it is passed.
C17_TouchNotInFlightNoOp ==
    [][(/\ ret'.op = "touch"
        /\ Unwrap(ret'.id) \in DOMAIN JobsOf(ret'.queue)
        /\ JobsOf(ret'.queue)[Unwrap(ret'.id)].heartbeat = None) =>
          /\ ret'.result = "Ok"
          /\ ret'.calls = <<>>
          /\ queues' = queues
          /\ backing' = backing]_vars

\* C17, witness: touch with a checkpoint has returned Ok on a persisted job that
\* waits in ready with heartbeat None and no checkpoint
C17_Witness ==
    /\ ret.op = "touch"
    /\ ret.state # None
    /\ ret.result = "Ok"
    /\ Unwrap(ret.id) \in DOMAIN JobsOf(ret.queue)
    /\ JobsOf(ret.queue)[Unwrap(ret.id)].heartbeat = None
    /\ JobsOf(ret.queue)[Unwrap(ret.id)].state = None
    /\ JobsOf(ret.queue)[Unwrap(ret.id)].job.persist_data
    /\ Unwrap(ret.id) \in Range(ReadyOf(ret.queue))

\* C18: at rest, the in_flight field of every StoredJob of a jobs table is true
\* exactly when its id is in the in_flight set of its queue.
C18_InFlightFieldMirrorsSet ==
    AtRest =>
        \A q \in DOMAIN queues : \A id \in DOMAIN queues[q].jobs :
            queues[q].jobs[id].in_flight = (id \in queues[q].queued.in_flight)

\* C19: next never returns a job whose id is already in in_flight, and no id occurs
\* twice in a ready deque.
C19_NoDoubleDispatch ==
    [][/\ (ret'.op = "next" /\ ret'.result = "Some") =>
             Unwrap(ret'.id) \notin InFlightOf(ret'.queue)
       /\ \A q \in DOMAIN queues' : \A i, j \in DOMAIN ReadyIn(queues', q) :
             ReadyIn(queues', q)[i] = ReadyIn(queues', q)[j] => i = j]_vars

\* C20: a job that the drain removes from jobs and yields is, when it is removed, in
\* in_flight with a heartbeat older than its timeout and no retry left.
C20_ReapedJobIsTimedOut ==
    [][(ret'.op = "reap_next" /\ ret'.result = "Ok") =>
          TimedOutTerminal(ret'.queue, Unwrap(ret'.id))]_vars

\* C21: while the consumer of the stream handles a job the drain has yielded, the
\* lock of that job's queue is free, so that an enqueue, next, touch or complete on
\* the queue can take it before the drain goes on.
C21_LockFreeBetweenDeferredJobs ==
    (ret.op = "reap_next" /\ ret.result = "Ok") => LockFree(ret.queue)

====
